---- MODULE Spec2Model ----
(***************************************************************************)
(* Checkout / verification reconciliation of the shopp payment backends.   *)
(*                                                                         *)
(* The repository holds several near-duplicate Express servers:            *)
(*   "part_000"  src/unnamed/part_000:1-212   booking, currency aware      *)
(*   "part_001"  src/unnamed/part_001 (= src/unnamed/part_000:214-521)     *)
(*               booking, currency fixed to gbp                            *)
(*   "server"    src/server.js                booking + tips               *)
(*   "part_002"  src/unnamed/part_002         booking + tips, with         *)
(*               getGuideInfo and safeFirestoreAdd                         *)
(* One of them is deployed (variable variant).  A client holds one request *)
(* (variable req) that it may submit to the create endpoint; the session   *)
(* the processor created for it may be paid, verified, and (for the tip    *)
(* servers) reconciled by the verify endpoint and by the webhook.          *)
(*                                                                         *)
(* JavaScript values are modelled by what the language does with them:     *)
(* numbers are exact decimals counted in thousandths (49.99 is 49990),     *)
(* strings are sequences of one-character strings.                         *)
(***************************************************************************)
EXTENDS Integers, Sequences, FiniteSets

VARIABLES
    variant,    \* which server file is deployed
    env,        \* NODE_ENV, and the text upstream errors carry in this run
    lookup,     \* the last getGuideInfo call and what it returned (or NoLookup)
    req,        \* the client's create-session request body
    resp,       \* last response of a create-session endpoint (or NoResp)
    nCreate,    \* number of stripe.checkout.sessions.create calls issued
    lastCall,   \* parameters of the last create call (or NoCall)
    session,    \* the processor's session created for req (or NoSession)
    vresp,      \* last response of POST /verify-payment (or NoResp)
    guides,     \* Firestore collection 'guides'
    tips,       \* Firestore collection 'tips' (sequence of TipRecords)
    notifs,     \* notification dispatches (sequence)
    vp,         \* the running GET /api/tip/verify-checkout-session request
    wp,         \* the running POST /api/tip/webhook request
    nVerify,    \* number of tip verify requests started
    nDeliver    \* number of webhook deliveries started

vars == <<variant, env, lookup, req, resp, nCreate, lastCall, session, vresp,
          guides, tips, notifs, vp, wp, nVerify, nDeliver>>

-----------------------------------------------------------------------------
(* Bounds of the model *)

\* how often the client may (re)submit its create-session request
MaxCreateCalls == 2
\* how many tip verify requests and webhook deliveries are made in all
MaxTipCalls == 2

-----------------------------------------------------------------------------
(* JavaScript values *)

Undefined == [t |-> "undefined"]
Null == [t |-> "null"]
NaN == [t |-> "NaN"]
Num(n) == [t |-> "number", n |-> n]
Str(s) == [t |-> "string", s |-> s]

IsNum(v) == v.t = "number"
IsStr(v) == v.t = "string"

\* ToBoolean
Truthy(v) ==
    CASE v.t = "undefined" -> FALSE
      [] v.t = "null" -> FALSE
      [] v.t = "NaN" -> FALSE
      [] v.t = "number" -> v.n # 0
      [] v.t = "string" -> v.s # <<>>

\* a || b
Or(a, b) == IF Truthy(a) THEN a ELSE b

Digits == <<"0", "1", "2", "3", "4", "5", "6", "7", "8", "9">>
IsDigit(c) == \E i \in 1..10 : Digits[i] = c
DigitVal(c) == (CHOOSE i \in 1..10 : Digits[i] = c) - 1

RECURSIVE DigitsVal(_)
\* value of a sequence of digit characters
DigitsVal(s) ==
    IF s = <<>> THEN 0
    ELSE 10 * DigitsVal(SubSeq(s, 1, Len(s) - 1)) + DigitVal(s[Len(s)])

RECURSIVE DigitPrefixLen(_)
\* length of the longest prefix of s made of digits
DigitPrefixLen(s) ==
    IF s # <<>> /\ IsDigit(s[1]) THEN 1 + DigitPrefixLen(Tail(s)) ELSE 0

\* thousandths denoted by the fraction digits f (at most three are kept exactly)
FracVal(f) ==
    CASE Len(f) = 0 -> 0
      [] Len(f) = 1 -> 100 * DigitsVal(f)
      [] Len(f) = 2 -> 10 * DigitsVal(f)
      [] OTHER -> DigitsVal(SubSeq(f, 1, 3))

\* The decimal literal at the start of s: [len, n] with len = 0 when there is
\* none.  Grammar: [+-] digits [. digits] | [+-] . digits
DecimalPrefix(s) ==
    LET sgn == IF s # <<>> /\ s[1] \in {"-", "+"} THEN 1 ELSE 0
        neg == sgn = 1 /\ s[1] = "-"
        r1 == SubSeq(s, sgn + 1, Len(s))
        il == DigitPrefixLen(r1)
        r2 == SubSeq(r1, il + 1, Len(r1))
        dot == r2 # <<>> /\ r2[1] = "."
        fl == IF dot THEN DigitPrefixLen(Tail(r2)) ELSE 0
        ok == il > 0 \/ fl > 0
        mag == 1000 * DigitsVal(SubSeq(r1, 1, il))
               + (IF fl > 0 THEN FracVal(SubSeq(r2, 2, fl + 1)) ELSE 0)
        used == sgn + il + (IF dot /\ (fl > 0 \/ il > 0) THEN 1 + fl ELSE 0)
    IN  IF ok THEN [len |-> used, n |-> IF neg THEN 0 - mag ELSE mag]
        ELSE [len |-> 0, n |-> 0]

\* StringToNumber: the empty string is 0, a whole decimal literal its value,
\* anything else NaN
StringToNumber(s) ==
    IF s = <<>> THEN Num(0)
    ELSE LET p == DecimalPrefix(s)
         IN  IF p.len = Len(s) THEN Num(p.n) ELSE NaN

\* ToNumber
ToNumber(v) ==
    CASE v.t = "undefined" -> NaN
      [] v.t = "null" -> Num(0)
      [] v.t = "NaN" -> NaN
      [] v.t = "number" -> v
      [] v.t = "string" -> StringToNumber(v.s)

RECURSIVE NatToChars(_)
NatToChars(k) ==
    IF k < 10 THEN <<Digits[k + 1]>>
    ELSE NatToChars(k \div 10) \o <<Digits[(k % 10) + 1]>>

\* Number.prototype.toString of a decimal with at most three fraction digits
NumberToString(n) ==
    LET a == IF n < 0 THEN 0 - n ELSE n
        f == a % 1000
        fs == CASE f = 0 -> <<>>
                [] f % 100 = 0 -> <<".">> \o NatToChars(f \div 100)
                [] f % 10 = 0 -> <<".", Digits[(f \div 100) + 1]>>
                                 \o NatToChars((f \div 10) % 10)
                [] OTHER -> <<".", Digits[(f \div 100) + 1],
                              Digits[((f \div 10) % 10) + 1]>>
                            \o NatToChars(f % 10)
    IN  (IF n < 0 THEN <<"-">> ELSE <<>>) \o NatToChars(a \div 1000) \o fs

\* String(v): ToString of the values that reach it
ToStr(v) ==
    CASE v.t = "string" -> v.s
      [] v.t = "number" -> NumberToString(v.n)
      [] v.t = "NaN" -> <<"N", "a", "N">>
      [] v.t = "null" -> <<"n", "u", "l", "l">>
      [] v.t = "undefined" -> <<"u", "n", "d", "e", "f", "i", "n", "e", "d">>

\* parseFloat: the longest decimal-literal prefix of ToStr(v), else NaN
ParseFloat(v) ==
    LET p == DecimalPrefix(ToStr(v))
    IN  IF p.len > 0 THEN Num(p.n) ELSE NaN

Upper == <<"A", "B", "C", "D", "E", "F", "G", "H", "I", "J", "K", "L", "M",
           "N", "O", "P", "Q", "R", "S", "T", "U", "V", "W", "X", "Y", "Z">>
Lower == <<"a", "b", "c", "d", "e", "f", "g", "h", "i", "j", "k", "l", "m",
           "n", "o", "p", "q", "r", "s", "t", "u", "v", "w", "x", "y", "z">>
LowerChar(c) ==
    IF \E i \in 1..26 : Upper[i] = c
    THEN Lower[CHOOSE i \in 1..26 : Upper[i] = c]
    ELSE c

\* String.prototype.toLowerCase
ToLowerCase(s) == [i \in 1..Len(s) |-> LowerChar(s[i])]

\* x * y for a number x (thousandths) and an integer literal y
Times(x, y) == IF IsNum(x) THEN Num(x.n * y) ELSE NaN

\* (mutant) the minor units are taken for major units
Div100_Skipped(x) == x

\* x / 100 for a number x
Div100(x) == IF IsNum(x) THEN Num(x.n \div 100) ELSE NaN

\* (mutant) Math.floor in place of Math.round
MathRound_Floor(x) ==
    IF IsNum(x) THEN Num(1000 * (x.n \div 1000)) ELSE NaN

\* Math.round: the nearest integer, halves towards +Infinity
MathRound(x) ==
    IF IsNum(x) THEN Num(1000 * ((x.n + 500) \div 1000)) ELSE NaN

\* a <= b (abstract relational comparison on ToNumber; NaN compares false)
LessEq(a, b) ==
    LET x == ToNumber(a)
        y == ToNumber(b)
    IN  IsNum(x) /\ IsNum(y) /\ x.n <= y.n

\* a > b
Greater(a, b) ==
    LET x == ToNumber(a)
        y == ToNumber(b)
    IN  IsNum(x) /\ IsNum(y) /\ x.n > y.n

-----------------------------------------------------------------------------
(* String constants of the source *)

GBP == <<"g", "b", "p">>
USD == <<"u", "s", "d">>
NONE == <<"n", "o", "n", "e">>
ZERO == <<"0">>
TRUE_ == <<"t", "r", "u", "e">>
FALSE_ == <<"f", "a", "l", "s", "e">>
PACKAGE == <<"p", "a", "c", "k", "a", "g", "e">>
TIP == <<"t", "i", "p">>
GUIDE == <<"g", "u", "i", "d", "e">>
COMPANY == <<"c", "o", "m", "p", "a", "n", "y">>
ANONYMOUS_ID == <<"a", "n", "o", "n", "y", "m", "o", "u", "s">>
ANONYMOUS_NAME == <<"A", "n", "o", "n", "y", "m", "o", "u", "s">>
COMPANY_NAME == <<"K", "e", "n", "y", "a">>   \* 'Kenya on a Budget Safaris'
GUIDE_NAME == <<"G", "u", "i", "d", "e">>       \* 'Guide'
UNKNOWN_GUIDE == <<"U", "n", "k", "n", "o", "w", "n">>  \* 'Unknown Guide'

\* identifiers handed out by the processor
SessionId == <<"c", "s", "_", "1">>
BadSessionId == <<"c", "s", "_", "x">>
PaymentIntentId == <<"p", "i", "_", "1">>

-----------------------------------------------------------------------------
(* The servers *)

Variants == {"part_000", "part_001", "server", "part_002"}
\* the servers that have the tip endpoints and the webhook
TipVariants == {"server", "part_002"}

\* process.env.NODE_ENV
Modes == {"production", "development"}

\* the message of an error thrown by the processor, the data store or the
\* email provider: its wording is theirs, and differs from one run to another
UpstreamTexts == {"connect ETIMEDOUT", "No such checkout.session: cs_x"}

Envs == [mode : Modes, text : UpstreamTexts]

\* { error: error.message } in the catch of a handler, for an error thrown by
\* an upstream call: the body carries its text.  (The error field of the
\* model names the call that failed; a TypeError of the handler's own code
\* has a fixed wording.)
EchoMessage(r) == [r EXCEPT !.message = env.text]

NoResp == [status |-> 0]
NoCall == [made |-> FALSE]
NoSession == [exists |-> FALSE]

\* a create-session request body; a key the client left out is Undefined
Request(kind, userId, amount, currency, originalAmount, couponCode,
        discountAmount, recipientType, recipientId, recipientName) ==
    [kind |-> kind, userId |-> userId, amount |-> amount,
     currency |-> currency, originalAmount |-> originalAmount,
     couponCode |-> couponCode, discountAmount |-> discountAmount,
     recipientType |-> recipientType, recipientId |-> recipientId,
     recipientName |-> recipientName,
     userName |-> Undefined, message |-> Undefined]

\* session metadata as the processor stores it: a key whose value was
\* undefined is not stored and reads back as Undefined
EmptyMetadata ==
    [userId |-> Undefined, originalAmount |-> Undefined,
     discountAmount |-> Undefined, couponCode |-> Undefined,
     hasCoupon |-> Undefined, currency |-> Undefined, type |-> Undefined,
     recipientType |-> Undefined, recipientId |-> Undefined,
     recipientName |-> Undefined, userName |-> Undefined,
     message |-> Undefined]

\* res.status(s).json({error, code})
ErrorResp(s, error, code) ==
    [status |-> s, error |-> error, code |-> code, message |-> "",
     id |-> Undefined, currency |-> Undefined]

\* res.json({id | sessionId, currency})
CreatedResp(id, currency) ==
    [status |-> 200, error |-> "", code |-> "", message |-> "",
     id |-> Str(id), currency |-> currency]

-----------------------------------------------------------------------------
(* POST /create-checkout-session *)

\* (mutant) the free-booking check without amount === '0'
BookingValidation_NumericZeroOnly(r) ==
    IF ~Truthy(r.userId) THEN "Missing userId"
    ELSE IF r.amount = Undefined \/ r.amount = Null THEN "Missing amount"
    ELSE IF r.amount = Num(0) THEN "FREE_BOOKING"
    ELSE "ok"

\* (mutant) userId === undefined in place of !userId
BookingValidation_UndefinedUserOnly(r) ==
    IF r.userId = Undefined THEN "Missing userId"
    ELSE IF r.amount = Undefined \/ r.amount = Null THEN "Missing amount"
    ELSE IF r.amount = Num(0) \/ r.amount = Str(ZERO) THEN "FREE_BOOKING"
    ELSE "ok"

\* (mutant) the amount checks before the userId check
BookingValidation_AmountFirst(r) ==
    IF r.amount = Undefined \/ r.amount = Null THEN "Missing amount"
    ELSE IF r.amount = Num(0) \/ r.amount = Str(ZERO) THEN "FREE_BOOKING"
    ELSE IF ~Truthy(r.userId) THEN "Missing userId"
    ELSE "ok"

\* 'Validate required fields' and the free-booking check: the first
\* violated rule, or "ok"
BookingValidation(r) ==
    IF ~Truthy(r.userId) THEN "Missing userId"
    ELSE IF r.amount = Undefined \/ r.amount = Null THEN "Missing amount"
    ELSE IF r.amount = Num(0) \/ r.amount = Str(ZERO) THEN "FREE_BOOKING"
    ELSE "ok"

\* the response of a request that fails validation
ValidationResp(rule) ==
    IF rule = "FREE_BOOKING"
    THEN ErrorResp(400, "Free bookings should be processed without Stripe",
                   "FREE_BOOKING")
    ELSE ErrorResp(400, rule, "")

\* productDescription calls toFixed on originalAmount and discountAmount
\* when a coupon and a discount are present: a TypeError unless both are
\* numbers
DescriptionThrows(r) ==
    /\ Truthy(r.couponCode)
    /\ Truthy(r.discountAmount)
    /\ (~IsNum(r.originalAmount) \/ ~IsNum(r.discountAmount))

\* (mutant) the supplied code is compared as it came, against 'USD'
PaymentCurrency_NoLowerCase(v, currency) ==
    IF v = "part_000" /\ currency = Str(<<"U", "S", "D">>) THEN USD ELSE GBP

\* paymentCurrency: part_000 lower-cases the supplied code and recognises
\* 'usd'; the other servers send the literal 'gbp'
PaymentCurrency(v, currency) ==
    IF v = "part_000"
    THEN IF Truthy(currency) /\ ToLowerCase(ToStr(currency)) = USD
         THEN USD ELSE GBP
    ELSE GBP

\* unit_amount: Math.round(amount * 100), in minor units
UnitAmount(amount) == MathRound(Times(ToNumber(amount), 100))

\* (mutant) the optional fields are stored as they came
BookingMetadata_NoPlaceholders(v, r) ==
    [EmptyMetadata EXCEPT
        !.userId = r.userId,
        !.originalAmount = r.originalAmount,
        !.discountAmount = r.discountAmount,
        !.couponCode = r.couponCode,
        !.hasCoupon = IF Truthy(r.couponCode) THEN Str(TRUE_) ELSE Str(FALSE_),
        !.currency = IF v = "part_000"
                     THEN Str(PaymentCurrency(v, r.currency)) ELSE Undefined,
        !.type = IF v \in TipVariants THEN Str(PACKAGE) ELSE Undefined]

\* metadata of a booking session
BookingMetadata(v, r) ==
    [EmptyMetadata EXCEPT
        !.userId = r.userId,
        !.originalAmount = IF Truthy(r.originalAmount)
                           THEN Str(ToStr(r.originalAmount))
                           ELSE Str(ToStr(r.amount)),
        !.discountAmount = IF Truthy(r.discountAmount)
                           THEN Str(ToStr(r.discountAmount))
                           ELSE Str(ZERO),
        !.couponCode = Or(r.couponCode, Str(NONE)),
        !.hasCoupon = IF Truthy(r.couponCode) THEN Str(TRUE_) ELSE Str(FALSE_),
        !.currency = IF v = "part_000"
                     THEN Str(PaymentCurrency(v, r.currency)) ELSE Undefined,
        !.type = IF v \in TipVariants THEN Str(PACKAGE) ELSE Undefined]

\* the argument of stripe.checkout.sessions.create
BookingParams(v, r) ==
    [made |-> TRUE,
     currency |-> Str(PaymentCurrency(v, r.currency)),
     unit_amount |-> UnitAmount(r.amount),
     metadata |-> BookingMetadata(v, r)]

\* The processor: a create call may fail (network, API error); it cannot
\* succeed when unit_amount is not a number.  A new session is unpaid and its
\* amount_total is unit_amount (quantity 1).
ProcessorAccepts(params) == IsNum(params.unit_amount)

NewSession(params) ==
    [exists |-> TRUE, id |-> SessionId, payment_status |-> "unpaid",
     amount_total |-> params.unit_amount, currency |-> params.currency,
     metadata |-> params.metadata, payment_intent |-> PaymentIntentId,
     customer |-> Null]

\* the response body of a created booking session
BookingCreated(v, r) ==
    CreatedResp(SessionId,
                IF v = "part_000" THEN Str(PaymentCurrency(v, r.currency))
                ELSE Undefined)

\* the handler; ok: whether the processor call succeeds
CreateCheckoutSession(ok) ==
    /\ req.kind = "booking"
    /\ session = NoSession
    /\ nCreate < MaxCreateCalls
    /\ LET rule == BookingValidation(req)
           params == BookingParams(variant, req)
       IN  IF rule # "ok"
           THEN /\ resp' = ValidationResp(rule)
                /\ UNCHANGED <<nCreate, lastCall, session>>
           ELSE IF DescriptionThrows(req)
           THEN /\ resp' = ErrorResp(500, "TypeError", "")
                /\ UNCHANGED <<nCreate, lastCall, session>>
           ELSE /\ nCreate' = nCreate + 1
                /\ lastCall' = params
                /\ IF ok /\ ProcessorAccepts(params)
                   THEN /\ session' = NewSession(params)
                        /\ resp' = BookingCreated(variant, req)
                   ELSE /\ session' = session
                        /\ resp' = EchoMessage(
                                        ErrorResp(500, "StripeError", ""))
    /\ UNCHANGED <<variant, env, lookup, req, vresp, guides, tips, notifs, vp, wp,
                   nVerify, nDeliver>>

-----------------------------------------------------------------------------
(* POST /api/tip/create-checkout-session *)

\* 'Validate required fields': !amount || amount <= 0
TipAmountInvalid(amount) == ~Truthy(amount) \/ LessEq(amount, Num(0))

\* const { currency = 'gbp' } = req.body: the default replaces undefined only
TipCurrencyDefault(currency) ==
    IF currency = Undefined THEN Str(GBP) ELSE currency

\* currency.toLowerCase() is a TypeError unless currency is a string
TipCurrencyThrows(r) == ~IsStr(TipCurrencyDefault(r.currency))

TipCurrency(r) == ToLowerCase(TipCurrencyDefault(r.currency).s)

TipMetadata(r) ==
    [EmptyMetadata EXCEPT
        !.recipientType = r.recipientType,
        !.recipientId = r.recipientId,
        !.recipientName = r.recipientName,
        !.userId = r.userId,
        !.userName = r.userName,
        !.message = r.message,
        !.type = Str(TIP)]

TipParams(r) ==
    [made |-> TRUE,
     currency |-> Str(TipCurrency(r)),
     unit_amount |-> UnitAmount(r.amount),
     metadata |-> TipMetadata(r)]

TipCreateCheckoutSession(ok) ==
    /\ req.kind = "tip"
    /\ variant \in TipVariants
    /\ session = NoSession
    /\ nCreate < MaxCreateCalls
    /\ IF TipAmountInvalid(req.amount)
       THEN /\ resp' = ErrorResp(400, "Valid amount is required", "")
            /\ UNCHANGED <<nCreate, lastCall, session>>
       ELSE IF TipCurrencyThrows(req)
       THEN /\ resp' = ErrorResp(500, "TypeError", "")
            /\ UNCHANGED <<nCreate, lastCall, session>>
       ELSE /\ nCreate' = nCreate + 1
            /\ lastCall' = TipParams(req)
            /\ IF ok /\ ProcessorAccepts(TipParams(req))
               THEN /\ session' = NewSession(TipParams(req))
                    /\ resp' = CreatedResp(SessionId, Undefined)
               ELSE /\ session' = session
                    /\ resp' = EchoMessage(
                                    ErrorResp(500, "StripeError", ""))
    /\ UNCHANGED <<variant, env, lookup, req, vresp, guides, tips, notifs, vp, wp,
                   nVerify, nDeliver>>

-----------------------------------------------------------------------------
(* The customer pays on the hosted checkout page *)

Pay ==
    /\ session # NoSession
    /\ session.payment_status = "unpaid"
    /\ session' = [session EXCEPT !.payment_status = "paid"]
    /\ UNCHANGED <<variant, env, lookup, req, resp, nCreate, lastCall, vresp, guides,
                   tips, notifs, vp, wp, nVerify, nDeliver>>

-----------------------------------------------------------------------------
(* POST /verify-payment *)

\* stripe.checkout.sessions.retrieve(sid) can return the session only when
\* sid is the id of a session the processor holds
Retrievable(sid) == session # NoSession /\ sid = Str(session.id)

\* (sid and found are not part of the body: they record the request the
\* response answers, its sessionId and whether the processor returned the
\* session)
VerifyError(s, error) ==
    [status |-> s, error |-> error, message |-> "", paid |-> FALSE,
     pstatus |-> "",
     amount |-> Undefined, originalAmount |-> Undefined,
     discountAmount |-> Undefined, couponCode |-> Undefined,
     sid |-> Undefined, found |-> FALSE]

Answer(r, sid, found) == [r EXCEPT !.sid = sid, !.found = found]

\* (mutant) the stored coupon code is returned as it is
ReconcileCoupon_Raw(md) == md.couponCode

\* couponCode: metadata.couponCode !== 'none' ? metadata.couponCode : null
ReconcileCoupon(md) ==
    IF md.couponCode # Str(NONE) THEN md.couponCode ELSE Null

\* const metadata = session.metadata || {}
MetadataOrEmpty(s) == IF s.metadata = Null THEN EmptyMetadata ELSE s.metadata

\* (mutant) originalAmount and discountAmount are parsed from the metadata
\* alone
VerifyOutcome_NoFallback(s) ==
    IF s.payment_status = "paid"
    THEN [status |-> 200, error |-> "", paid |-> TRUE, pstatus |-> "",
          amount |-> Div100(s.amount_total),
          originalAmount |-> ParseFloat(MetadataOrEmpty(s).originalAmount),
          discountAmount |-> ParseFloat(MetadataOrEmpty(s).discountAmount),
          couponCode |-> ReconcileCoupon(MetadataOrEmpty(s)),
          sid |-> Undefined, found |-> FALSE]
    ELSE [VerifyError(200, "") EXCEPT !.pstatus = s.payment_status]

\* the response for a retrieved session s
VerifyOutcome(s) ==
    IF s.payment_status = "paid"
    THEN LET metadata == MetadataOrEmpty(s)
         IN  [status |-> 200, error |-> "", paid |-> TRUE, pstatus |-> "",
              amount |-> Div100(s.amount_total),
              originalAmount |->
                  ParseFloat(Or(metadata.originalAmount,
                                Div100(s.amount_total))),
              discountAmount |->
                  ParseFloat(Or(metadata.discountAmount, Num(0))),
              couponCode |-> ReconcileCoupon(metadata),
              sid |-> Undefined, found |-> FALSE]
    ELSE [VerifyError(200, "") EXCEPT !.pstatus = s.payment_status]

\* the handler; sid: the sessionId of the body, ok: whether the processor
\* answers the retrieve call
VerifyPayment(sid, ok) ==
    /\ LET found == Truthy(sid) /\ ok /\ Retrievable(sid)
       IN  vresp' = Answer(IF ~Truthy(sid)
                           THEN VerifyError(400, "Session ID is required")
                           ELSE IF ~found
                           THEN EchoMessage(VerifyError(500, "StripeError"))
                           ELSE VerifyOutcome(session),
                           sid, found)
    /\ UNCHANGED <<variant, env, lookup, req, resp, nCreate, lastCall, session, guides,
                   tips, notifs, vp, wp, nVerify, nDeliver>>

-----------------------------------------------------------------------------
(* Firestore collection 'guides' and getGuideInfo *)

Guide(id, fullName, name, displayName, email) ==
    [id |-> id, fullName |-> fullName, name |-> name,
     displayName |-> displayName, email |-> email]

\* db.collection('guides').limit(50)
ScanLimit == 50

NameFields == <<"fullName", "name", "displayName">>

\* indexes of the documents of store g that satisfy P, in store order
FirstIndex(g, P(_)) ==
    IF \E i \in 1..Len(g) : P(g[i])
    THEN CHOOSE i \in 1..Len(g) : P(g[i]) /\ \A j \in 1..(i - 1) : ~P(g[j])
    ELSE 0

\* what is returned for a document that was found
GuideFound(doc, guideName) ==
    [exists |-> TRUE, id |-> Str(doc.id),
     name |-> Or(Or(doc.fullName, doc.name), guideName),
     email |-> doc.email]

GuideNotFound(guideName) ==
    [exists |-> FALSE, id |-> Undefined,
     name |-> Or(guideName, Str(UNKNOWN_GUIDE)), email |-> Null]

\* (mutant) the first document that holds the name in any of the fields
ExactMatch_DocOrder(g, guideName) ==
    FirstIndex(g, LAMBDA d : \E k \in 1..3 : d[NameFields[k]] = guideName)

\* .where(field, '==', guideName).limit(1), over the three name fields in
\* order: index of the document returned by the first query that is not
\* empty, else 0
ExactMatch(g, guideName) ==
    LET hit(f) == FirstIndex(g, LAMBDA d : d[f] = guideName)
    IN  IF hit(NameFields[1]) > 0 THEN hit(NameFields[1])
        ELSE IF hit(NameFields[2]) > 0 THEN hit(NameFields[2])
        ELSE hit(NameFields[3])

\* the case-insensitive scan over at most ScanLimit documents
ScanMatch(g, guideName) ==
    LET scanned == SubSeq(g, 1, IF Len(g) < ScanLimit THEN Len(g) ELSE ScanLimit)
        same(d) == \E k \in 1..3 :
                      /\ IsStr(d[NameFields[k]])
                      /\ Truthy(d[NameFields[k]])
                      /\ ToLowerCase(d[NameFields[k]].s)
                           = ToLowerCase(ToStr(guideName))
    IN  FirstIndex(scanned, same)

\* dbOk: whether the data store answers; a failure anywhere is caught and
\* answered like a guide that was not found
getGuideInfo(guideId, guideName, dbOk) ==
    LET byId == FirstIndex(guides, LAMBDA d : Str(d.id) = guideId)
    IN  IF ~dbOk THEN GuideNotFound(guideName)
        ELSE IF Truthy(guideId) /\ byId > 0
        THEN [GuideFound(guides[byId], guideName) EXCEPT !.id = guideId]
        ELSE IF Truthy(guideName) /\ ExactMatch(guides, guideName) > 0
        THEN GuideFound(guides[ExactMatch(guides, guideName)], guideName)
        ELSE IF Truthy(guideName) /\ ScanMatch(guides, guideName) > 0
        THEN GuideFound(guides[ScanMatch(guides, guideName)], guideName)
        ELSE GuideNotFound(guideName)

NoLookup == [called |-> FALSE]

\* one call getGuideInfo(guideId, guideName), by whichever caller
GetGuideInfo(guideId, guideName, dbOk) ==
    /\ variant = "part_002"
    /\ lookup' = [called |-> TRUE, guideId |-> guideId,
                  guideName |-> guideName, dbOk |-> dbOk,
                  result |-> getGuideInfo(guideId, guideName, dbOk)]
    /\ UNCHANGED <<variant, env, req, resp, nCreate, lastCall, session, vresp,
                   guides, tips, notifs, vp, wp, nVerify, nDeliver>>

-----------------------------------------------------------------------------
(* Notification dispatch *)

\* sendGuideNotification: whether the email to the guide goes out.  ok:
\* whether the data store and the email provider answer.  part_002 resolves
\* the guide with getGuideInfo, server.js reads the document by id.
sendGuideNotification(guideId, guideName, ok) ==
    IF variant = "part_002"
    THEN LET info == getGuideInfo(guideId, guideName, ok)
         IN  ok /\ info.exists /\ Truthy(info.email)
    ELSE LET i == FirstIndex(guides, LAMBDA d : Str(d.id) = guideId)
         IN  ok /\ i > 0 /\ Truthy(guides[i].email)

\* sendCompanyNotification: whether the email to the admins goes out
sendCompanyNotification(ok) == ok

\* the dispatch both paths make after the record is saved: the guide
\* notification when recipientType is 'guide' and recipientId is set, else
\* the company notification
Dispatch(by, pi, recipientType, recipientId, recipientName, ok) ==
    IF recipientType = Str(GUIDE) /\ Truthy(recipientId)
    THEN [kind |-> "guide", by |-> by, pi |-> pi.id,
          emailed |-> sendGuideNotification(recipientId, recipientName, ok)]
    ELSE [kind |-> "company", by |-> by, pi |-> pi.id,
          emailed |-> sendCompanyNotification(ok)]

\* the document both paths add to collection 'tips'
TipRecord(by, pi, recipientType, recipientId, recipientName, md) ==
    [by |-> by,
     stripePaymentIntentId |-> pi.id,
     stripeSessionId |-> Str(session.id),
     amount |-> Div100(pi.amount),
     currency |-> pi.currency,
     recipientType |-> recipientType,
     recipientId |-> recipientId,
     recipientName |-> recipientName,
     senderId |-> Or(md.userId, Str(ANONYMOUS_ID)),
     senderName |-> Or(md.userName, Str(ANONYMOUS_NAME)),
     status |-> "completed"]

\* stripe.paymentIntents.retrieve(session.payment_intent)
PaymentIntent ==
    [id |-> Str(session.payment_intent), amount |-> session.amount_total,
     currency |-> session.currency]

NoIntent == [id |-> Undefined, amount |-> Undefined, currency |-> Undefined]
NoInfo == [exists |-> FALSE, id |-> Undefined, name |-> Undefined,
           email |-> Null]

-----------------------------------------------------------------------------
(* GET /api/tip/verify-checkout-session *)

NoPayment == [amount |-> Undefined, recipientType |-> Undefined,
              recipientId |-> Undefined, recipientName |-> Undefined]

\* a response of the tip verify endpoint; pstatus is the 'status' key of a
\* not-paid answer ("" when the body has no such key)
TipResp(s, success, error, pstatus, payment) ==
    [status |-> s, success |-> success, error |-> error, message |-> "",
     pstatus |-> pstatus, payment |-> payment]

\* the outer catch of server.js: res.status(500).json({ error: error.message })
TipServerError(cause) ==
    EchoMessage(TipResp(500, FALSE, cause, "", NoPayment))

\* sid: the session_id of the request in hand (or of the last one); found:
\* whether the processor returned the session for it
IdleVerify == [pc |-> "idle", pi |-> NoIntent, info |-> NoInfo,
               name |-> Undefined, resp |-> NoResp,
               sid |-> Undefined, found |-> FALSE]

\* the request ends with response r
VerifyEnds(r) ==
    vp' = [IdleVerify EXCEPT !.resp = r, !.sid = vp.sid, !.found = vp.found]

\* the answer when the processor cannot return the session: part_002 catches
\* the retrieve error, server.js lets it reach the outer catch
SessionLookupFailed ==
    IF variant = "part_002"
    THEN TipResp(400, FALSE, "Invalid or expired session ID", "", NoPayment)
    ELSE TipServerError("StripeError")

\* the answer for a session that is not paid: part_002 echoes the status
NotPaid ==
    IF variant = "part_002"
    THEN TipResp(200, FALSE, "Payment not complete", session.payment_status,
                 NoPayment)
    ELSE TipResp(200, FALSE, "Payment not complete", "", NoPayment)

\* finalRecipientName before the guide lookup
DefaultRecipientName(md) == Or(md.recipientName, Str(COMPANY_NAME))

\* server.js and the webhook look the guide up only when the session names
\* a guide id and no name
NeedsGuideDoc(md) ==
    /\ md.recipientType = Str(GUIDE)
    /\ Truthy(md.recipientId)
    /\ ~Truthy(md.recipientName)

\* guideDoc.exists ? guideDoc.data().fullName || 'Guide' : name
GuideDocName(md, name) ==
    LET i == FirstIndex(guides, LAMBDA d : Str(d.id) = md.recipientId)
    IN  IF i > 0 THEN Or(guides[i].fullName, Str(GUIDE_NAME)) ELSE name

\* query check, session retrieve and the payment_status branch
VerifyStart(sid, ok) ==
    /\ variant \in TipVariants
    /\ vp.pc = "idle"
    /\ nVerify + nDeliver < MaxTipCalls
    /\ nVerify' = nVerify + 1
    /\ LET found == Truthy(sid) /\ ok /\ Retrievable(sid)
           r == [IdleVerify EXCEPT !.sid = sid, !.found = found]
       IN  IF ~Truthy(sid)
           THEN vp' = [r EXCEPT !.resp = TipResp(400, FALSE,
                                     "Session ID is required", "", NoPayment)]
           ELSE IF ~found
           THEN vp' = [r EXCEPT !.resp = SessionLookupFailed]
           ELSE IF session.payment_status # "paid"
           THEN vp' = [r EXCEPT !.resp = NotPaid]
           ELSE vp' = [r EXCEPT !.pc = "intent"]
    /\ UNCHANGED <<variant, env, lookup, req, resp, nCreate, lastCall, session, vresp,
                   guides, tips, notifs, wp, nDeliver>>

\* stripe.paymentIntents.retrieve and the metadata: part_002 falls back to
\* the session's amount and currency (and no id) when the call fails
VerifyIntent(ok) ==
    /\ vp.pc = "intent"
    /\ LET md == session.metadata
       IN  IF variant = "part_002"
           THEN vp' = [vp EXCEPT
                    !.pi = IF ok THEN PaymentIntent
                           ELSE [PaymentIntent EXCEPT !.id = Undefined],
                    !.pc = IF md.recipientType = Str(GUIDE)
                           THEN "guide" ELSE "save"]
           ELSE IF ~ok
           THEN VerifyEnds(TipServerError("StripeError"))
           ELSE vp' = [vp EXCEPT
                    !.pi = PaymentIntent,
                    !.name = DefaultRecipientName(md),
                    !.pc = IF NeedsGuideDoc(md) THEN "guide" ELSE "save"]
    /\ UNCHANGED <<variant, env, lookup, req, resp, nCreate, lastCall, session, vresp,
                   guides, tips, notifs, wp, nVerify, nDeliver>>

\* the guide lookup: getGuideInfo in part_002, the document read in server.js
VerifyGuide(ok) ==
    /\ vp.pc = "guide"
    /\ LET md == session.metadata
       IN  IF variant = "part_002"
           THEN LET info == getGuideInfo(md.recipientId, md.recipientName, ok)
                IN  vp' = [vp EXCEPT
                        !.info = IF info.exists THEN info ELSE NoInfo,
                        !.pc = "save"]
           ELSE IF ~ok
           THEN VerifyEnds(TipServerError("FirestoreError"))
           ELSE vp' = [vp EXCEPT !.name = GuideDocName(md, vp.name),
                                 !.pc = "save"]
    /\ UNCHANGED <<variant, env, lookup, req, resp, nCreate, lastCall, session, vresp,
                   guides, tips, notifs, wp, nVerify, nDeliver>>

\* the recipient the verify path records and reports
VerifyRecipientId(md) ==
    IF variant = "part_002" /\ vp.info.exists
    THEN Or(vp.info.id, md.recipientId) ELSE md.recipientId

VerifyRecipientName(md) ==
    IF variant = "part_002"
    THEN IF vp.info.exists THEN vp.info.name
         ELSE Or(md.recipientName, Str(COMPANY_NAME))
    ELSE vp.name

\* (mutant) the add replaces what the collection held
safeFirestoreAdd_Overwrite(collection, data, ok) ==
    IF ok THEN <<data>> ELSE collection

\* safeFirestoreAdd(collectionName, data): the store after the call; a
\* failed add is caught and leaves the collection as it was
safeFirestoreAdd(collection, data, ok) ==
    IF ok THEN Append(collection, data) ELSE collection

\* saving the TipRecord: part_002 goes through safeFirestoreAdd and carries
\* on, server.js calls db.collection('tips').add and a failure ends the
\* request in the outer catch
VerifySave(ok) ==
    /\ vp.pc = "save"
    /\ LET md == session.metadata
           rec == TipRecord("verify", vp.pi, md.recipientType,
                            VerifyRecipientId(md), VerifyRecipientName(md), md)
       IN  IF variant = "part_002"
           THEN /\ tips' = safeFirestoreAdd(tips, rec, ok)
                /\ vp' = [vp EXCEPT !.pc = "notify"]
           ELSE IF ok
           THEN /\ tips' = Append(tips, rec)
                /\ vp' = [vp EXCEPT !.pc = "notify"]
           ELSE /\ tips' = tips
                /\ VerifyEnds(TipServerError("FirestoreError"))
    /\ UNCHANGED <<variant, env, lookup, req, resp, nCreate, lastCall, session, vresp,
                   guides, notifs, wp, nVerify, nDeliver>>

\* the notification of the verify path.  In part_002's guide branch the
\* guide notification is sent to the resolved guide whatever recipientId is.
VerifyDispatch(md, ok) ==
    IF variant = "part_002" /\ vp.info.exists
    THEN [kind |-> "guide", by |-> "verify", pi |-> vp.pi.id,
          emailed |-> sendGuideNotification(VerifyRecipientId(md),
                                            vp.info.name, ok)]
    ELSE Dispatch("verify", vp.pi, md.recipientType, md.recipientId,
                  IF variant = "part_002" THEN md.recipientName ELSE vp.name,
                  ok)

\* (mutant) a failed notification reaches the outer catch of the handler
VerifyNotify_Propagates(ok) ==
    /\ vp.pc = "notify"
    /\ LET md == session.metadata
       IN  IF ok
           THEN /\ notifs' = Append(notifs, VerifyDispatch(md, ok))
                /\ VerifyEnds(TipResp(200, TRUE, "", "",
                       [amount |-> Div100(vp.pi.amount),
                        recipientType |-> md.recipientType,
                        recipientId |-> VerifyRecipientId(md),
                        recipientName |-> VerifyRecipientName(md)]))
           ELSE /\ notifs' = notifs
                /\ VerifyEnds(TipServerError("BrevoError"))
    /\ UNCHANGED <<variant, env, lookup, req, resp, nCreate, lastCall, session, vresp,
                   guides, tips, wp, nVerify, nDeliver>>

\* (mutant) the guide branch does not return: after its notification the
\* handler goes on to the save of the fallback branch
VerifyNotify_FallsThrough(ok) ==
    /\ vp.pc = "notify"
    /\ LET md == session.metadata
       IN  /\ notifs' = Append(notifs, VerifyDispatch(md, ok))
           /\ IF variant = "part_002" /\ vp.info.exists
              THEN vp' = [vp EXCEPT !.info = NoInfo, !.pc = "save"]
              ELSE VerifyEnds(TipResp(200, TRUE, "", "",
                      [amount |-> Div100(vp.pi.amount),
                       recipientType |-> md.recipientType,
                       recipientId |-> VerifyRecipientId(md),
                       recipientName |-> VerifyRecipientName(md)]))
    /\ UNCHANGED <<variant, env, lookup, req, resp, nCreate, lastCall, session,
                   vresp, guides, tips, wp, nVerify, nDeliver>>

\* the notification and the success response
VerifyNotify(ok) ==
    /\ vp.pc = "notify"
    /\ LET md == session.metadata
       IN  /\ notifs' = Append(notifs, VerifyDispatch(md, ok))
           /\ VerifyEnds(TipResp(200, TRUE, "", "",
                  [amount |-> Div100(vp.pi.amount),
                   recipientType |-> md.recipientType,
                   recipientId |-> VerifyRecipientId(md),
                   recipientName |-> VerifyRecipientName(md)]))
    /\ UNCHANGED <<variant, env, lookup, req, resp, nCreate, lastCall, session, vresp,
                   guides, tips, wp, nVerify, nDeliver>>

-----------------------------------------------------------------------------
(* POST /api/tip/webhook *)

CheckoutCompleted == "checkout.session.completed"
EventTypes == {CheckoutCompleted, "payment_intent.succeeded"}

\* sig and type: the signature validity and event type of the delivery in
\* hand (or of the last one); status: the HTTP status it was answered with;
\* caught: whether the processing of the event ended in the catch
IdleWebhook == [pc |-> "idle", pi |-> NoIntent, name |-> Undefined,
                status |-> 0, sig |-> FALSE, type |-> "", caught |-> FALSE]

\* the delivery ends with HTTP status s
WebhookEnds(s) ==
    wp' = [IdleWebhook EXCEPT !.status = s, !.sig = wp.sig, !.type = wp.type]

\* (mutant) the signature error is not acted on
SignatureRejected_Skipped(sigOk) == FALSE

\* the catch around constructEvent: a delivery whose signature does not
\* verify is answered 400 before anything else
SignatureRejected(sigOk) == ~sigOk

\* res.json({ received: true })
Acknowledge == WebhookEnds(200)

\* (mutant) the catch answers 500 instead of falling through
WebhookCatch_Respond500 ==
    wp' = [IdleWebhook EXCEPT !.status = 500, !.sig = wp.sig,
                              !.type = wp.type, !.caught = TRUE]

\* what the catch around the event processing does with an error: it is
\* logged, and the handler goes on to acknowledge
WebhookCatch ==
    wp' = [IdleWebhook EXCEPT !.status = 200, !.sig = wp.sig,
                              !.type = wp.type, !.caught = TRUE]

\* the event is processed only when it is a completed checkout of a paid
\* session whose metadata type is 'tip'
WebhookProcesses(type) ==
    /\ type = CheckoutCompleted
    /\ session # NoSession
    /\ session.metadata.type = Str(TIP)
    /\ session.payment_status = "paid"

\* stripe.webhooks.constructEvent and the event-type branching.  sigOk:
\* whether the signature verifies against STRIPE_WEBHOOK_SECRET.  A signed
\* event is one the processor sent about the session.
WebhookReceive(sigOk, type) ==
    /\ variant \in TipVariants
    /\ wp.pc = "idle"
    /\ nVerify + nDeliver < MaxTipCalls
    /\ sigOk => session # NoSession
    /\ nDeliver' = nDeliver + 1
    /\ LET d == [IdleWebhook EXCEPT !.sig = sigOk, !.type = type]
       IN  IF SignatureRejected(sigOk) THEN wp' = [d EXCEPT !.status = 400]
           ELSE IF WebhookProcesses(type)
           THEN wp' = [d EXCEPT !.pc = "intent"]
           ELSE wp' = [d EXCEPT !.status = 200]
    /\ UNCHANGED <<variant, env, lookup, req, resp, nCreate, lastCall, session, vresp,
                   guides, tips, notifs, vp, nVerify>>

WebhookIntent(ok) ==
    /\ wp.pc = "intent"
    /\ LET md == session.metadata
       IN  IF ~ok THEN WebhookCatch
           ELSE wp' = [wp EXCEPT
                    !.pi = PaymentIntent,
                    !.name = DefaultRecipientName(md),
                    !.pc = IF NeedsGuideDoc(md) THEN "guide" ELSE "save"]
    /\ UNCHANGED <<variant, env, lookup, req, resp, nCreate, lastCall, session, vresp,
                   guides, tips, notifs, vp, nVerify, nDeliver>>

WebhookGuide(ok) ==
    /\ wp.pc = "guide"
    /\ IF ~ok THEN WebhookCatch
       ELSE wp' = [wp EXCEPT !.name = GuideDocName(session.metadata, wp.name),
                             !.pc = "save"]
    /\ UNCHANGED <<variant, env, lookup, req, resp, nCreate, lastCall, session, vresp,
                   guides, tips, notifs, vp, nVerify, nDeliver>>

\* db.collection('tips').add: a failure is caught, nothing is notified
WebhookSave(ok) ==
    /\ wp.pc = "save"
    /\ LET md == session.metadata
           rec == TipRecord("webhook", wp.pi, md.recipientType,
                            md.recipientId, wp.name, md)
       IN  IF ok
           THEN /\ tips' = Append(tips, rec)
                /\ wp' = [wp EXCEPT !.pc = "notify"]
           ELSE /\ tips' = tips
                /\ WebhookCatch
    /\ UNCHANGED <<variant, env, lookup, req, resp, nCreate, lastCall, session, vresp,
                   guides, notifs, vp, nVerify, nDeliver>>

\* the notification, then the acknowledgement
WebhookNotify(ok) ==
    /\ wp.pc = "notify"
    /\ LET md == session.metadata
       IN  notifs' = Append(notifs, Dispatch("webhook", wp.pi,
                         md.recipientType, md.recipientId, wp.name, ok))
    /\ Acknowledge
    /\ UNCHANGED <<variant, env, lookup, req, resp, nCreate, lastCall, session, vresp,
                   guides, tips, vp, nVerify, nDeliver>>

-----------------------------------------------------------------------------
(* Requests and data-store contents the model draws from *)

U1 == <<"u", "1">>
G1 == <<"g", "1">>
ANN == <<"A", "n", "n">>
SAVE == <<"S", "A", "V", "E">>
MAIL == <<"a", "@", "x">>

UserIds == {Undefined, Null, Str(<<>>), Str(U1)}

\* Amounts are exact decimals in thousandths.  An amount exactly half a minor
\* unit from a whole one (10.005) is not among them: there the binary
\* floating-point product amount * 100 decides which way Math.round goes.
BookingAmounts ==
    {Undefined, Null, Num(0), Str(ZERO), Str(<<"0", ".", "0", "0">>),
     Num(49990), Str(<<"4", "9", ".", "9", "9">>), Num(10006), Num(1),
     Num(0 - 5000), Str(<<"a", "b", "c">>)}

Currencies ==
    {Undefined, Null, Str(<<"U", "S", "D">>), Str(USD), Str(<<"G", "b", "p">>),
     Str(<<"e", "u", "r">>)}

BookingRequests ==
    {Request("booking", u, a, c, o, k, d, Undefined, Undefined, Undefined) :
        u \in UserIds, a \in BookingAmounts, c \in Currencies,
        o \in {Undefined, Num(54990)}, k \in {Undefined, Str(SAVE)},
        d \in {Undefined, Num(5000)}}

TipAmounts ==
    {Undefined, Null, Num(0), Str(ZERO), Str(<<>>), Num(0 - 5000),
     Num(10000), Num(1), Str(<<"2", ".", "5">>), Str(<<"a", "b", "c">>)}

TipRequests ==
    {Request("tip", Undefined, a, c, Undefined, Undefined, Undefined,
             t, IF t = Str(GUIDE) THEN Str(G1) ELSE Undefined, Undefined) :
        a \in TipAmounts, c \in Currencies, t \in {Str(GUIDE), Str(COMPANY)}}

\* the tips whose reconciliation is followed
TipFlowRequests ==
    {r \in {Request("tip", Undefined, Num(10000), Undefined, Undefined,
                    Undefined, Undefined, t, i, n) :
                t \in {Str(GUIDE), Str(COMPANY)}, i \in {Undefined, Str(G1)},
                n \in {Undefined, Str(ANN)}} :
        r.recipientType = Str(GUIDE) \/ r.recipientId = Undefined}

\* no create-session request: the session in hand was not created here
NoRequest ==
    Request("none", Undefined, Undefined, Undefined, Undefined, Undefined,
            Undefined, Undefined, Undefined, Undefined)

StoredMetadata ==
    {Null,
     EmptyMetadata,
     [EmptyMetadata EXCEPT !.originalAmount = Str(<<"5", "4", ".", "9", "9">>)],
     [EmptyMetadata EXCEPT !.discountAmount = Str(<<"5">>)],
     [EmptyMetadata EXCEPT !.couponCode = Str(NONE)],
     [EmptyMetadata EXCEPT !.originalAmount = Str(<<"5", "4", ".", "9", "9">>),
                           !.discountAmount = Str(<<"5">>),
                           !.couponCode = Str(SAVE)]}

StoredSessions ==
    {[exists |-> TRUE, id |-> SessionId, payment_status |-> "unpaid",
      amount_total |-> t, currency |-> Str(GBP), metadata |-> md,
      payment_intent |-> PaymentIntentId, customer |-> Null] :
        t \in {Num(4999000), Num(1000000), Num(0)}, md \in StoredMetadata}

GuideStores ==
    {<<>>, <<Guide(G1, Str(ANN), Undefined, Undefined, Str(MAIL))>>}

\* the package bookings whose session the tip endpoints may be asked about
BookedRequests ==
    {Request("booking", Str(U1), Num(49990), Undefined, o, k, d,
             Undefined, Undefined, Undefined) :
        o \in {Num(54990)}, k \in {Undefined, Str(SAVE)},
        d \in {Num(5000)}}

G2 == <<"g", "2">>
G9 == <<"g", "9">>
ANN_UPPER == <<"A", "N", "N">>
ANN_LOWER == <<"a", "n", "n">>
BOB == <<"B", "o", "b">>

\* n guide documents none of which is asked for
Fillers(n) ==
    [i \in 1..n |-> Guide(<<"f">> \o NatToChars(i), Str(<<"Z", "e", "d">>),
                          Undefined, Undefined, Null)]

\* 'guides' collections, in document order, that tell the steps of
\* getGuideInfo apart: a name held in different fields of different
\* documents, in another case, by a document without names, and by the
\* document at and after the end of the scan
LookupStores ==
    {<<>>,
     <<Guide(G1, Str(ANN), Undefined, Undefined, Str(MAIL))>>,
     <<Guide(G1, Undefined, Str(ANN), Undefined, Null),
       Guide(G2, Str(ANN), Undefined, Undefined, Str(MAIL))>>,
     <<Guide(G1, Str(ANN_UPPER), Undefined, Undefined, Null),
       Guide(G2, Undefined, Undefined, Str(ANN), Str(MAIL))>>,
     <<Guide(G1, Str(BOB), Undefined, Undefined, Null),
       Guide(G2, Str(ANN), Undefined, Undefined, Str(MAIL))>>,
     <<Guide(G1, Undefined, Undefined, Undefined, Str(MAIL))>>,
     <<Guide(G1, Undefined, Undefined, Str(ANN_UPPER), Null),
       Guide(G2, Undefined, Str(ANN_UPPER), Undefined, Str(MAIL))>>,
     Fillers(ScanLimit - 1)
        \o <<Guide(G2, Str(ANN_UPPER), Undefined, Undefined, Str(MAIL))>>,
     Fillers(ScanLimit)
        \o <<Guide(G2, Str(ANN_UPPER), Undefined, Undefined, Str(MAIL))>>}

LookupIds == {Undefined, Str(G1), Str(G2), Str(G9)}
LookupNames == {Undefined, Str(ANN), Str(ANN_LOWER), Str(BOB)}

-----------------------------------------------------------------------------
(* Specifications *)

\* nothing verified, delivered or recorded yet
Fresh ==
    /\ lookup = NoLookup
    /\ vresp = NoResp
    /\ tips = <<>>
    /\ notifs = <<>>
    /\ vp = IdleVerify
    /\ wp = IdleWebhook
    /\ nVerify = 0
    /\ nDeliver = 0

\* session creation and POST /verify-payment
Init ==
    /\ variant \in Variants
    /\ env \in Envs
    /\ req \in BookingRequests \cup
               (IF variant \in TipVariants THEN TipRequests ELSE {})
    /\ guides = <<>>
    /\ resp = NoResp
    /\ nCreate = 0
    /\ lastCall = NoCall
    /\ session = NoSession
    /\ Fresh

Next ==
    \/ \E ok \in BOOLEAN : CreateCheckoutSession(ok)
    \/ \E ok \in BOOLEAN : TipCreateCheckoutSession(ok)
    \/ Pay
    \/ \E sid \in {Undefined, Str(SessionId), Str(BadSessionId)},
          ok \in BOOLEAN : VerifyPayment(sid, ok)

Spec == Init /\ [][Next]_vars

\* tip reconciliation, the verify endpoint and the webhook: it starts where
\* POST /api/tip/create-checkout-session has answered with a new session
InitTip ==
    /\ variant \in TipVariants
    /\ env \in Envs
    /\ req \in TipFlowRequests
    /\ guides \in GuideStores
    /\ resp = CreatedResp(SessionId, Undefined)
    /\ nCreate = 1
    /\ lastCall = TipParams(req)
    /\ session = NewSession(TipParams(req))
    /\ Fresh

WebhookStep ==
    \/ \E ok \in BOOLEAN : WebhookIntent(ok)
    \/ \E ok \in BOOLEAN : WebhookGuide(ok)
    \/ \E ok \in BOOLEAN : WebhookSave(ok)
    \/ \E ok \in BOOLEAN : WebhookNotify(ok)

NextTip ==
    \/ Pay
    \/ \E sid \in {Undefined, Str(SessionId), Str(BadSessionId)},
          ok \in BOOLEAN : VerifyStart(sid, ok)
    \/ \E ok \in BOOLEAN : VerifyIntent(ok)
    \/ \E ok \in BOOLEAN : VerifyGuide(ok)
    \/ \E ok \in BOOLEAN : VerifySave(ok)
    \/ \E ok \in BOOLEAN : VerifyNotify(ok)
    \/ \E sigOk \in BOOLEAN, type \in EventTypes : WebhookReceive(sigOk, type)
    \/ WebhookStep

SpecTip == InitTip /\ [][NextTip]_vars

\* the event loop resumes a webhook handler whose pending call has settled
LiveTip == SpecTip /\ WF_vars(WebhookStep)

\* POST /verify-payment over the sessions the processor account may hold,
\* whoever created them: metadata absent, empty, partial or complete
InitStored ==
    /\ variant \in Variants
    /\ env \in Envs
    /\ req = NoRequest
    /\ guides = <<>>
    /\ resp = NoResp
    /\ nCreate = 0
    /\ lastCall = NoCall
    /\ session \in StoredSessions
    /\ Fresh

NextStored ==
    \/ Pay
    \/ \E sid \in {Undefined, Str(SessionId), Str(BadSessionId)},
          ok \in BOOLEAN : VerifyPayment(sid, ok)

SpecStored == InitStored /\ [][NextStored]_vars

\* the tip endpoints of a server whose create endpoints have answered with
\* a new session, for a package booking or for a tip: the verify endpoint
\* and the webhook are handed sessions of either kind
InitBooked ==
    /\ variant \in TipVariants
    /\ env \in Envs
    /\ req \in BookedRequests \cup TipFlowRequests
    /\ guides \in GuideStores
    /\ nCreate = 1
    /\ IF req.kind = "booking"
       THEN /\ resp = BookingCreated(variant, req)
            /\ lastCall = BookingParams(variant, req)
       ELSE /\ resp = CreatedResp(SessionId, Undefined)
            /\ lastCall = TipParams(req)
    /\ session = NewSession(lastCall)
    /\ Fresh

SpecBooked == InitBooked /\ [][NextTip]_vars

\* getGuideInfo over the collections of LookupStores
InitGuide ==
    /\ variant = "part_002"
    /\ env \in Envs
    /\ req = NoRequest
    /\ guides \in LookupStores
    /\ resp = NoResp
    /\ nCreate = 0
    /\ lastCall = NoCall
    /\ session = NoSession
    /\ Fresh

NextGuide ==
    \E guideId \in LookupIds, guideName \in LookupNames, dbOk \in BOOLEAN :
        GetGuideInfo(guideId, guideName, dbOk)

SpecGuide == InitGuide /\ [][NextGuide]_vars

-----------------------------------------------------------------------------
(* Claims *)

\* the TipRecords and the notification dispatches of payment intent pid
RecordsOf(pid) == {i \in DOMAIN tips : tips[i].stripePaymentIntentId = pid}
DispatchesOf(pid) == {i \in DOMAIN notifs : notifs[i].pi = pid}

\* C1: for a paid tip session, the verify endpoint and the webhook together
\* (in any interleaving, and two verify calls in a row) leave at most one
\* TipRecord and at most one notification dispatch per payment-intent id.
C1_OneRecordPerPayment ==
    \A pid \in {Str(PaymentIntentId), Undefined} :
        /\ Cardinality(RecordsOf(pid)) <= 1
        /\ Cardinality(DispatchesOf(pid)) <= 1

\* C2: a verification call (POST /verify-payment or GET
\* /api/tip/verify-checkout-session) that finds a session which is not paid
\* answers 200 with paid/success false and the raw payment_status, and leaves
\* the TipRecords and the notification dispatches unchanged.
C2_NotPaidNoEffect ==
    [][/\ (vresp' # vresp /\ vresp'.found /\ session.payment_status # "paid")
            => /\ vresp'.status = 200
               /\ ~vresp'.paid
               /\ vresp'.pstatus = session.payment_status
               /\ tips' = tips
               /\ notifs' = notifs
       /\ (nVerify' # nVerify /\ vp'.found /\ session.payment_status # "paid")
            => /\ vp'.pc = "idle"
               /\ vp'.resp.status = 200
               /\ ~vp'.resp.success
               /\ vp'.resp.pstatus = session.payment_status
               /\ tips' = tips
               /\ notifs' = notifs]_vars

\* C3: a webhook delivery whose signature does not verify is answered 400 in
\* the step that receives it and is never processed: no payment-intent fetch,
\* no TipRecord, no notification.
C3_InvalidSignatureRejected ==
    [][/\ (nDeliver' # nDeliver /\ ~wp'.sig)
            => /\ wp'.status = 400
               /\ wp'.pi = NoIntent
               /\ tips' = tips
               /\ notifs' = notifs
       /\ ~wp'.sig => wp'.pc = "idle"]_vars

\* a forged completed-checkout event for a paid tip session was answered 400
\* and nothing was recorded
C3_Witness ==
    /\ nDeliver > 0
    /\ ~wp.sig
    /\ wp.status = 400
    /\ wp.type = CheckoutCompleted
    /\ session # NoSession
    /\ session.payment_status = "paid"
    /\ session.metadata.type = Str(TIP)
    /\ tips = <<>>
    /\ notifs = <<>>

\* C4: a delivery whose signature is valid is always eventually answered
\* with the 200 acknowledgement, whatever the event type and whatever fails
\* while the event is processed; it is never answered with anything else.
C4_AlwaysAcknowledged ==
    /\ (wp.sig /\ wp.pc # "idle") ~> (wp.pc = "idle" /\ wp.status = 200)
    /\ [](wp.sig /\ wp.pc = "idle" => wp.status = 200)

\* the processing of a signed event failed and the delivery was acknowledged
C4_Witness == wp.sig /\ wp.caught /\ wp.pc = "idle" /\ wp.status = 200

\* C5: a booking request with a userId whose amount is 0 or "0" is answered
\* 400 with code FREE_BOOKING and never leads to a create-session call.
C5_FreeBookingRejected ==
    (/\ req.kind = "booking"
     /\ Truthy(req.userId)
     /\ (req.amount = Num(0) \/ req.amount = Str(ZERO)))
    => /\ nCreate = 0
       /\ lastCall = NoCall
       /\ session = NoSession
       /\ resp # NoResp => (resp.status = 400 /\ resp.code = "FREE_BOOKING")

C5_Witness ==
    /\ req.kind = "booking"
    /\ req.amount = Str(ZERO)
    /\ resp # NoResp
    /\ resp.code = "FREE_BOOKING"

\* userId is absent (undefined or null) or the empty string
UserIdMissing(r) == r.userId \in {Undefined, Null, Str(<<>>)}

\* C6: a booking request whose userId is absent or empty is answered 400
\* 'Missing userId' and never leads to a create-session call, whatever its
\* other fields are.
C6_MissingUserIdRejected ==
    (req.kind = "booking" /\ UserIdMissing(req))
    => /\ nCreate = 0
       /\ lastCall = NoCall
       /\ session = NoSession
       /\ resp # NoResp => (resp.status = 400 /\ resp.error = "Missing userId")

C6_Witness ==
    /\ req.kind = "booking"
    /\ req.userId = Str(<<>>)
    /\ req.amount = Num(49990)
    /\ resp # NoResp
    /\ resp.error = "Missing userId"
    /\ nCreate = 0

\* C7: booking validation reports the first violated rule only, in the order
\* userId, amount presence, free booking; a request that violates none is
\* not answered 400.
C7_FailFastOrder ==
    (req.kind = "booking" /\ resp # NoResp)
    => IF UserIdMissing(req)
       THEN resp.status = 400 /\ resp.error = "Missing userId"
       ELSE IF req.amount \in {Undefined, Null}
       THEN resp.status = 400 /\ resp.error = "Missing amount"
       ELSE IF req.amount \in {Num(0), Str(ZERO)}
       THEN resp.status = 400 /\ resp.code = "FREE_BOOKING"
       ELSE resp.status # 400

\* a request without userId and with amount zero is told about the userId
C7_Witness ==
    /\ req.kind = "booking"
    /\ req.userId = Undefined
    /\ req.amount = Num(0)
    /\ resp # NoResp
    /\ resp.error = "Missing userId"

\* C8: a tip request whose amount is absent or not strictly greater than
\* zero is answered 400 'Valid amount is required' and leads to no
\* create-session call; a request that reaches the processor has an amount
\* strictly greater than zero.
C8_TipAmountValidated ==
    req.kind = "tip"
    => /\ ~Greater(req.amount, Num(0))
            => /\ nCreate = 0
               /\ resp # NoResp
                    => (resp.status = 400
                        /\ resp.error = "Valid amount is required")
       /\ lastCall # NoCall => Greater(req.amount, Num(0))

\* the integer nearest to x (both in thousandths), halves upwards
NearestInteger(x) ==
    CHOOSE k \in (x - 1000)..(x + 1000) :
        k % 1000 = 0 /\ k - 500 <= x /\ x < k + 500

\* a booking request with amount > 0 that reached the processor
PositiveBookingSent ==
    req.kind = "booking" /\ lastCall # NoCall /\ Greater(req.amount, Num(0))

\* /verify-payment answered for the paid session
PaidAnswer == vresp # NoResp /\ vresp.found /\ vresp.paid

\* C9 as stated: the minor units sent are round(amount * 100), and
\* minorUnits / 100 at verification is the requested amount.
C9_RoundTripExact ==
    PositiveBookingSent
    => LET a == ToNumber(req.amount).n
       IN  /\ lastCall.unit_amount = Num(NearestInteger(100 * a))
           /\ PaidAnswer => vresp.amount = Num(a)

\* C9 amended: the minor units sent are round(amount * 100); minorUnits / 100
\* at verification is the requested amount when that is a whole number of
\* minor units, and otherwise differs from it by at most half a minor unit.
C9_RoundTripWithinRounding ==
    PositiveBookingSent
    => LET a == ToNumber(req.amount).n
       IN  /\ lastCall.unit_amount = Num(NearestInteger(100 * a))
           /\ PaidAnswer
                => /\ IsNum(vresp.amount)
                   /\ vresp.amount.n - a <= 5
                   /\ a - vresp.amount.n <= 5
                   /\ a % 10 = 0 => vresp.amount.n = a

\* 10.006 was charged as 1001 minor units and verified as 10.01
C9_Witness ==
    /\ PositiveBookingSent
    /\ PaidAnswer
    /\ req.amount = Num(10006)
    /\ lastCall.unit_amount = Num(1001000)
    /\ vresp.amount = Num(10010)

\* the currency the specification asks for: the lower-cased code when it is
\* gbp or usd, else the fallback gbp
NormalizedCurrency(c) ==
    IF IsStr(c) /\ ToLowerCase(c.s) \in {GBP, USD}
    THEN ToLowerCase(c.s) ELSE GBP

\* C10: every create-session call (booking or tip) carries the lower-cased
\* supplied currency when that is gbp or usd, and gbp otherwise.
C10_CurrencyNormalized ==
    lastCall # NoCall
    => lastCall.currency = Str(NormalizedCurrency(req.currency))

\* a booking session was created and the client was told so
BookingSessionCreated ==
    req.kind = "booking" /\ session # NoSession /\ resp.status = 200

\* C11: for every successfully created booking session, the currency sent
\* to the processor, the currency stored in the session metadata and the
\* currency echoed in the response are one and the same value, gbp or usd.
C11_CurrencyConsistent ==
    BookingSessionCreated
    => /\ lastCall.currency \in {Str(GBP), Str(USD)}
       /\ session.metadata.currency = lastCall.currency
       /\ resp.currency = lastCall.currency

\* C12: currency normalization is idempotent: the currency a create call
\* carries, normalized again, is that same currency.
C12_NormalizationIdempotent ==
    lastCall # NoCall
    => IF req.kind = "booking"
       THEN PaymentCurrency(variant, lastCall.currency) = lastCall.currency.s
       ELSE TipCurrency([req EXCEPT !.currency = lastCall.currency])
                = lastCall.currency.s

\* the currency-aware server normalized USD to usd
C12_Witness ==
    /\ variant = "part_000"
    /\ req.kind = "booking"
    /\ req.currency = Str(<<"U", "S", "D">>)
    /\ lastCall # NoCall
    /\ lastCall.currency = Str(USD)

\* C13: a booking created without a coupon stores couponCode 'none'; the
\* verification of a paid session whose stored couponCode is 'none' returns
\* couponCode null and never the string 'none'; a real coupon code is
\* returned unchanged.
C13_CouponRoundTrip ==
    (req.kind = "booking" /\ session # NoSession)
    => /\ ~Truthy(req.couponCode) => session.metadata.couponCode = Str(NONE)
       /\ PaidAnswer
            => /\ vresp.couponCode # Str(NONE)
               /\ session.metadata.couponCode = Str(NONE)
                    => vresp.couponCode = Null
               /\ Truthy(req.couponCode) => vresp.couponCode = req.couponCode

\* a booking without coupon was paid and verified: couponCode null
C13_Witness ==
    /\ req.kind = "booking"
    /\ req.couponCode = Undefined
    /\ session # NoSession
    /\ session.metadata.couponCode = Str(NONE)
    /\ PaidAnswer
    /\ vresp.couponCode = Null

\* a booking without coupon, discount or originalAmount was created, paid
\* and verified
PlainBookingVerified ==
    /\ req.kind = "booking"
    /\ req.couponCode = Undefined
    /\ req.discountAmount = Undefined
    /\ req.originalAmount = Undefined
    /\ session # NoSession
    /\ PaidAnswer

\* C14 as stated: the verification of such a booking returns paid true,
\* amount and originalAmount both equal to the requested amount,
\* discountAmount 0 and couponCode null.
C14_CreateThenVerifyExact ==
    PlainBookingVerified
    => LET a == ToNumber(req.amount).n
       IN  /\ vresp.paid
           /\ vresp.amount = Num(a)
           /\ vresp.originalAmount = Num(a)
           /\ vresp.discountAmount = Num(0)
           /\ vresp.couponCode = Null

\* C14 amended: originalAmount is the requested amount, discountAmount 0 and
\* couponCode null; amount is the requested amount when that is a whole
\* number of minor units, and else the amount rounded to the nearest minor
\* unit.
C14_CreateThenVerify ==
    PlainBookingVerified
    => LET a == ToNumber(req.amount).n
       IN  /\ vresp.paid
           /\ vresp.originalAmount = Num(a)
           /\ vresp.discountAmount = Num(0)
           /\ vresp.couponCode = Null
           /\ vresp.amount = Num(NearestInteger(100 * a) \div 100)
           /\ a % 10 = 0 => vresp.amount = Num(a)

\* 49.99 went out as 4999 minor units and came back as 49.99
C14_Witness ==
    /\ PlainBookingVerified
    /\ req.amount = Num(49990)
    /\ lastCall.unit_amount = Num(4999000)
    /\ session.amount_total = Num(4999000)
    /\ vresp.amount = Num(49990)
    /\ vresp.originalAmount = Num(49990)
    /\ vresp.discountAmount = Num(0)
    /\ vresp.couponCode = Null

\* the verify request in hand did not resolve a guide: part_002's
\* getGuideInfo found none or failed; server.js read no guide document
GuideUnresolved ==
    IF variant = "part_002" THEN ~vp.info.exists
    ELSE ~(NeedsGuideDoc(session.metadata)
           /\ \E i \in 1..Len(guides) :
                  Str(guides[i].id) = session.metadata.recipientId)

\* C15: for a paid guide tip, the guide resolution step never ends the
\* verify request (a failed lookup is not answered with an error), and a
\* request that resolved no guide is answered success true with the
\* supplied recipientName, or the fallback name when none was supplied.
C15_GuideFailureNotSurfaced ==
    [][/\ vp.pc = "guide" => vp'.pc # "idle"
       /\ (/\ vp.pc = "notify"
           /\ vp'.pc = "idle"
           /\ session.metadata.recipientType = Str(GUIDE)
           /\ GuideUnresolved)
            => /\ vp'.resp.status = 200
               /\ vp'.resp.success
               /\ vp'.resp.payment.recipientName
                    = Or(session.metadata.recipientName, Str(COMPANY_NAME))]_vars

\* C16: the notification step of the verify endpoint always ends the
\* request with 200, success true and the payment details, whether or not
\* the email provider and the notification log answer; the saved TipRecords
\* stay as they are.
C16_NotificationFailureSwallowed ==
    [][(vp.pc = "notify" /\ vp' # vp)
        => /\ vp'.pc = "idle"
           /\ vp'.resp.status = 200
           /\ vp'.resp.success
           /\ vp'.resp.payment.amount = Div100(session.amount_total)
           /\ vp'.resp.payment.recipientType = session.metadata.recipientType
           /\ tips' = tips
           /\ Len(notifs') = Len(notifs) + 1]_vars

\* the company notification of a verify request failed, and the request was
\* answered success true
C16_Witness ==
    /\ vp.pc = "idle"
    /\ vp.resp.status = 200
    /\ vp.resp.success
    /\ session.metadata.recipientType = Str(COMPANY)
    /\ \E i \in 1..Len(notifs) :
          /\ notifs[i].by = "verify"
          /\ notifs[i].kind = "company"
          /\ ~notifs[i].emailed

\* C17: every created session carries in its metadata the fields the
\* reconciliation needs: the payment type and the currency, and for a
\* booking the original amount, the discount amount and the coupon code,
\* for a tip the recipient type and, for a guide, the guide's id.
C17_MetadataComplete ==
    session # NoSession
    => LET md == session.metadata
       IN  /\ md.type # Undefined
           /\ md.currency # Undefined
           /\ req.kind = "booking"
                => /\ md.originalAmount # Undefined
                   /\ md.discountAmount # Undefined
                   /\ md.couponCode # Undefined
           /\ req.kind = "tip"
                => /\ md.recipientType # Undefined
                   /\ md.recipientType = Str(GUIDE)
                        => md.recipientId # Undefined

\* C18: the metadata of every booking create call has the keys
\* originalAmount, discountAmount and couponCode with string values: 'none'
\* for an absent coupon code, '0' for an absent discount, and the string of
\* the payable amount for an absent originalAmount.
C18_PlaceholdersPresent ==
    (req.kind = "booking" /\ lastCall # NoCall)
    => LET md == lastCall.metadata
       IN  /\ IsStr(md.originalAmount)
           /\ IsStr(md.discountAmount)
           /\ IsStr(md.couponCode)
           /\ ~Truthy(req.couponCode) => md.couponCode = Str(NONE)
           /\ ~Truthy(req.discountAmount) => md.discountAmount = Str(ZERO)
           /\ ~Truthy(req.originalAmount)
                => /\ md.originalAmount = Str(ToStr(req.amount))
                   /\ ParseFloat(md.originalAmount) = ToNumber(req.amount)

\* a booking of 49.99 with no optional field was sent with '49.99', '0'
\* and 'none'
C18_Witness ==
    /\ req.kind = "booking"
    /\ req.amount = Num(49990)
    /\ req.originalAmount = Undefined
    /\ req.discountAmount = Undefined
    /\ req.couponCode = Undefined
    /\ lastCall # NoCall
    /\ lastCall.metadata.originalAmount = Str(<<"4", "9", ".", "9", "9">>)
    /\ lastCall.metadata.discountAmount = Str(ZERO)
    /\ lastCall.metadata.couponCode = Str(NONE)

\* the session's metadata, or its key originalAmount, is absent
OriginalAmountAbsent ==
    session.metadata = Null \/ session.metadata.originalAmount = Undefined

DiscountAmountAbsent ==
    session.metadata = Null \/ session.metadata.discountAmount = Undefined

\* C19: the verification of a paid session is answered 200 with paid true
\* whatever metadata the session has; originalAmount is amount_total / 100
\* when the metadata or its originalAmount is absent, and discountAmount is
\* 0 when its key is absent.
C19_MissingMetadataTolerated ==
    [][(vresp' # vresp /\ vresp'.found /\ session.payment_status = "paid")
        => /\ vresp'.status = 200
           /\ vresp'.paid
           /\ vresp'.amount = Num(session.amount_total.n \div 100)
           /\ OriginalAmountAbsent
                => vresp'.originalAmount = Num(session.amount_total.n \div 100)
           /\ DiscountAmountAbsent => vresp'.discountAmount = Num(0)]_vars

\* a paid session of 4999 minor units without metadata was verified as
\* 49.99 with no discount
C19_Witness ==
    /\ session.metadata = Null
    /\ session.amount_total = Num(4999000)
    /\ PaidAnswer
    /\ vresp.status = 200
    /\ vresp.originalAmount = Num(49990)
    /\ vresp.discountAmount = Num(0)

\* sid is a reference the processor holds no session for
InvalidReference(sid) == Truthy(sid) /\ ~Retrievable(sid)

\* the fixed messages a verify endpoint may answer a failed lookup with
SafeMessages == {"Invalid or expired session ID"}

\* C20: a verify request with a session reference the processor cannot
\* return (invalid or expired) is answered with a 4xx status and a fixed
\* message, on POST /verify-payment and on GET
\* /api/tip/verify-checkout-session; never with a 5xx or the processor's
\* error text.
C20_LookupFailureIs4xx ==
    /\ (vresp # NoResp /\ InvalidReference(vresp.sid))
        => /\ vresp.status \in 400..499
           /\ vresp.error \in SafeMessages
    /\ (vp.resp # NoResp /\ InvalidReference(vp.sid))
        => /\ vp.resp.status \in 400..499
           /\ vp.resp.error \in SafeMessages

\* a booking request with a coupon code and a discount amount but no
\* originalAmount, which passes the validation
CouponWithoutOriginal ==
    /\ req.kind = "booking"
    /\ Truthy(req.couponCode)
    /\ Truthy(req.discountAmount)
    /\ req.originalAmount = Undefined
    /\ BookingValidation(req) = "ok"

\* C21: an answered booking request with a coupon code and a discount amount
\* but no originalAmount has reached the processor's create-session call,
\* and a 500 it may get is the processor's, not the description's.
C21_MissingOriginalGuarded ==
    (CouponWithoutOriginal /\ resp # NoResp)
        => /\ nCreate >= 1
           /\ lastCall # NoCall
           /\ ~(resp.status = 500 /\ resp.error = "TypeError")

\* C22: the 'tips' collection is append-only: whatever step any endpoint
\* takes, every TipRecord persisted before the step is still there after it,
\* at the same place and with the same fields.
C22_TipsAppendOnly ==
    [][/\ Len(tips') >= Len(tips)
       /\ SubSeq(tips', 1, Len(tips)) = tips]_vars

\* a TipRecord persisted by the webhook is still the first one after a later
\* verify request has persisted its own
C22_Witness ==
    /\ Len(tips) = 2
    /\ tips[1].by = "webhook"
    /\ tips[2].by = "verify"
    /\ vp.pc = "idle"
    /\ vp.resp # NoResp

\* the 500 body r is the same whatever the upstream error said
BodyIndependent(r) == r.status = 500 => r.message \notin UpstreamTexts

\* C23: in production mode no 500 response of the create-session endpoints
\* or of POST /verify-payment carries the text of the upstream error: the
\* same run with another error text gets the same body.
C23_ProductionBodyIndependent ==
    env.mode = "production"
        => /\ BodyIndependent(resp)
           /\ BodyIndependent(vresp)

\* C24: every notification dispatched for the paid tip is of the kind of the
\* recipientType stored in the session: the guide-tip notification for
\* 'guide', the company-tip notification for 'company'.
C24_NotificationMatchesType ==
    \A i \in 1..Len(notifs) :
        notifs[i].kind = IF session.metadata.recipientType = Str(GUIDE)
                         THEN "guide" ELSE "company"

\* C25: for the same paid tip session and the same 'guides' collection, the
\* TipRecord the verify endpoint persists and the one the webhook persists
\* agree on recipientId, recipientName, amount and currency, and the two
\* paths dispatch the same kind of notification.
C25_PathsReconcileAlike ==
    /\ \A i, j \in 1..Len(tips) :
          (tips[i].by = "verify" /\ tips[j].by = "webhook")
            => /\ tips[i].recipientId = tips[j].recipientId
               /\ tips[i].recipientName = tips[j].recipientName
               /\ tips[i].amount = tips[j].amount
               /\ tips[i].currency = tips[j].currency
    /\ \A i, j \in 1..Len(notifs) :
          (notifs[i].by = "verify" /\ notifs[j].by = "webhook")
            => notifs[i].kind = notifs[j].kind

\* least element of a nonempty set of indexes
Least(S) == CHOOSE i \in S : \A j \in S : i <= j

\* the document of 'guides' the priority rule selects for the call in
\* lookup (0: none): by id; else the first document whose fullName equals
\* the name, else whose name does, else whose displayName does; else the
\* first of the first 50 documents holding the name in another case
Selected ==
    LET id == lookup.guideId
        nm == lookup.guideName
        docs == 1..Len(guides)
        byId == {i \in docs : Truthy(id) /\ Str(guides[i].id) = id}
        exact(f) == {i \in docs : Truthy(nm) /\ guides[i][f] = nm}
        scanned == {i \in docs :
                      /\ i <= 50
                      /\ Truthy(nm)
                      /\ \E f \in {"fullName", "name", "displayName"} :
                            /\ IsStr(guides[i][f])
                            /\ ToLowerCase(guides[i][f].s)
                                 = ToLowerCase(nm.s)}
    IN  IF byId # {} THEN Least(byId)
        ELSE IF exact("fullName") # {} THEN Least(exact("fullName"))
        ELSE IF exact("name") # {} THEN Least(exact("name"))
        ELSE IF exact("displayName") # {} THEN Least(exact("displayName"))
        ELSE IF scanned # {} THEN Least(scanned)
        ELSE 0

\* the result names the selected document, with the supplied name when the
\* document has neither fullName nor name
ResultOfSelected ==
    LET d == guides[Selected]
        r == lookup.result
    IN  /\ r.exists
        /\ r.id = Str(d.id)
        /\ r.email = d.email
        /\ r.name = IF Truthy(d.fullName) THEN d.fullName
                    ELSE IF Truthy(d.name) THEN d.name
                    ELSE lookup.guideName

\* C26 as stated: getGuideInfo returns the document selected by the priority
\* rule, and when none is selected a result with exists false, email null
\* and only the supplied name.
C26_LookupPriorityOnlySupplied ==
    (lookup.called /\ lookup.dbOk)
        => IF Selected > 0 THEN ResultOfSelected
           ELSE /\ ~lookup.result.exists
                /\ lookup.result.email = Null
                /\ lookup.result.name = lookup.guideName

\* C26: getGuideInfo returns the document selected by the priority rule (by
\* id, then exact match on fullName, name, displayName in that order, then
\* case-insensitive match among the first 50 documents), and when none
\* is selected a result with exists false, email null and the supplied name,
\* or 'Unknown Guide' when no name was supplied.
C26_LookupPriority ==
    (lookup.called /\ lookup.dbOk)
        => IF Selected > 0 THEN ResultOfSelected
           ELSE /\ ~lookup.result.exists
                /\ lookup.result.email = Null
                /\ lookup.result.name
                     = IF Truthy(lookup.guideName) THEN lookup.guideName
                       ELSE Str(UNKNOWN_GUIDE)

\* a lookup by name where the first document holds the name in field name
\* and the second in fullName: the second one was returned
C26_Witness ==
    /\ lookup.called
    /\ lookup.dbOk
    /\ Len(guides) = 2
    /\ lookup.guideName = Str(ANN)
    /\ guides[1].name = Str(ANN)
    /\ guides[2].fullName = Str(ANN)
    /\ Selected = 2
    /\ lookup.result.id = Str(G2)

\* the TipRecords and the dispatches made by the verify endpoint
VerifyRecords(t) == {i \in 1..Len(t) : t[i].by = "verify"}
VerifyDispatches(n) == {i \in 1..Len(n) : n[i].by = "verify"}

\* C27: within one invocation of the tip verify endpoint a TipRecord is
\* appended only by the save step and at most one, a notification is
\* dispatched only by the notify step and at most one, the save step is not
\* entered again after it was left, and the response is sent when the
\* invocation ends and not before: one response, whatever the guide lookup,
\* the append and the email did.
C27_OneEffectPerInvocation ==
    [][/\ Cardinality(VerifyRecords(tips'))
            - Cardinality(VerifyRecords(tips)) \in {0, 1}
       /\ Cardinality(VerifyRecords(tips')) # Cardinality(VerifyRecords(tips))
            => vp.pc = "save" /\ vp'.pc \in {"notify", "idle"}
       /\ Cardinality(VerifyDispatches(notifs'))
            - Cardinality(VerifyDispatches(notifs)) \in {0, 1}
       /\ Cardinality(VerifyDispatches(notifs'))
            # Cardinality(VerifyDispatches(notifs))
            => vp.pc = "notify" /\ vp'.pc = "idle"
       /\ vp.pc = "save" => vp'.pc \in {"save", "notify", "idle"}
       /\ vp.pc = "notify" => vp'.pc \in {"notify", "idle"}
       /\ vp'.pc # "idle" => vp'.resp = NoResp
       /\ (vp' # vp /\ vp'.pc = "idle") => vp'.resp # NoResp]_vars

\* one verify request for a paid guide tip has ended with the success
\* response, one TipRecord and one dispatch, the guide having been found
C27_Witness ==
    /\ variant = "part_002"
    /\ nVerify = 1
    /\ vp.pc = "idle"
    /\ vp.resp # NoResp
    /\ vp.resp.status = 200
    /\ vp.resp.success
    /\ Cardinality(VerifyRecords(tips)) = 1
    /\ Cardinality(VerifyDispatches(notifs)) = 1
    /\ notifs[Len(notifs)].kind = "guide"

\* C28: a step of the tip verify endpoint or of the webhook that appends a
\* TipRecord or dispatches a tip notification acts on a paid session whose
\* metadata type is 'tip', and when it is a step of the webhook, on a
\* checkout.session.completed event.
C28_OnlyPaidTipSessions ==
    [][(tips' # tips \/ notifs' # notifs)
        => /\ session # NoSession
           /\ session.payment_status = "paid"
           /\ session.metadata.type = Str(TIP)
           /\ wp' # wp => wp.type = CheckoutCompleted]_vars

\* C29: on each path, every notification dispatched so far was preceded by
\* the successful append of the TipRecord of the same request: there are
\* never more dispatches of a path than TipRecords it has persisted.
C29_SaveBeforeNotify ==
    \A by \in {"verify", "webhook"} :
        Cardinality({i \in 1..Len(notifs) : notifs[i].by = by})
            <= Cardinality({i \in 1..Len(tips) : tips[i].by = by})

\* C30: every create-session call issued to the processor carries a
\* unit_amount that is a strictly positive whole number of minor units.
C30_PositiveUnitAmount ==
    lastCall # NoCall
        => /\ IsNum(lastCall.unit_amount)
           /\ lastCall.unit_amount.n > 0
           /\ lastCall.unit_amount.n % 1000 = 0

====
